---- MODULE Spec2Model ----
(***************************************************************************)
(* Model of run.py (MinHustomte portal integration for Home Assistant).    *)
(*                                                                         *)
(*   TunnelSpec : TunnelClient, the poll loop that lists the pending       *)
(*                tunnel requests, executes each against Home Assistant    *)
(*                and PATCHes a terminal status back.                      *)
(*   CameraSpec : CameraStreamer, the relay session of one camera:         *)
(*                connect, wait for start_stream, send frames, reconnect.  *)
(*   LifecycleSpec : the tunnel clients start_tunnel_client creates and    *)
(*                the poll threads TunnelClient.start starts.              *)
(*   AgentSpec  : run(): one client and one streamer, started and stopped. *)
(*   ClassifierSpec : get_electricity_sensors, the pass over a state list. *)
(*   SyncSpec   : sync_electricity, the post of the classified record.     *)
(*   StreamersSpec : camera_streamers, the map of one CameraStreamer per   *)
(*                camera that start_camera_streamers fills.                *)
(*                                                                         *)
(* The remote endpoint, Home Assistant and the websocket peer are the      *)
(* environment: each call to them has every outcome the code handles.      *)
(***************************************************************************)
EXTENDS Naturals, Sequences, FiniteSets, TLC

VARIABLES
    \* ---- TunnelClient and the remote ha_tunnel_requests table ----
    authenticated,   \* MinHustomteIntegration.authenticated
    running,         \* TunnelClient.running
    tpc,             \* where the poll thread is
    reqs,            \* the request record stored under each id
    remote,          \* the status column of each id at the remote endpoint
    requests_list,   \* _process_pending_requests: the batch of this cycle
    idx,             \* position of the for loop in requests_list
    cur,             \* _handle_request: (result, error) of the request in hand
    listing,         \* outcome of this cycle's listing: none / ok / fail
    cycle_execs,     \* the ids whose action this cycle executed, in order
    cycle_log,       \* the status writes issued in this cycle, in order
    execs,           \* per id: how often its action was executed
    writes,          \* per id: how many status writes were issued
    \* ---- CameraStreamer (one camera entity) ----
    cam_running,     \* CameraStreamer.running
    ws,              \* CameraStreamer.ws: 0 is None, else a connection
    conn,            \* the connections created by websocket.create_connection
    spc,             \* where each stream thread is
    rc,              \* the connection a thread's recv() is blocked on (0: none)
    frame_data,      \* _send_frames: the local frame_data of each thread
    fetched,         \* number of frames fetched from the camera so far
    sent,            \* the connections a binary frame was sent on
    send_count,      \* per frame: how often it was sent
    no_delay,        \* per thread: left Streaming on a loss, has not slept since
    stopped,         \* stop() has returned and no start() followed
    skipped,         \* per thread: the last fetch of _send_frames gave no frame
    \* ---- MinHustomteIntegration.tunnel_client and the poll threads ----
    tunnel_client,   \* integration.tunnel_client: 0 is None, else a client
    client_running,  \* TunnelClient.running of each client
    ppc,             \* where each poll thread is
    pclient,         \* the client whose _poll_loop a poll thread runs (0: none)
    \* ---- get_electricity_sensors ----
    states,          \* the state list Home Assistant answers with
    electricity_data,\* the record the pass fills
    epos,            \* position of the for loop in states
    epc,             \* where the pass is: idle / loop / done
    returned,        \* what the passes so far returned, in order
    \* ---- MinHustomteIntegration.camera_streamers and its streamers ----
    camera_streamers,\* per camera entity: its streamer in the map (0: none)
    streamer_entity, \* per CameraStreamer object: entity_id (0: not created)
    streamer_running,\* CameraStreamer.running of each streamer
    streamer_ws,     \* CameraStreamer.ws of each: None / connected / lost
    streamer_pc,     \* where the stream thread of each streamer is
    streamer_sent,   \* per streamer: its thread has sent a frame
    stopping,        \* stop_camera_streamers is in its for loop
    stop_todo,       \* the streamers that loop has still to stop
    \* ---- sync_electricity ----
    sync             \* the last call of sync_electricity: what it read,
                     \* whether it posted, the record posted, what it returned

tvars == <<authenticated, running, tpc, reqs, remote, requests_list, idx, cur,
           listing, cycle_execs, cycle_log, execs, writes>>
cvars == <<cam_running, ws, conn, spc, rc, frame_data, fetched, sent,
           send_count, no_delay, stopped, skipped>>
lvars == <<tunnel_client, client_running, ppc, pclient>>
evars == <<states, electricity_data, epos, epc, returned>>
svars == <<camera_streamers, streamer_entity, streamer_running, streamer_ws,
           streamer_pc, streamer_sent, stopping, stop_todo>>
mvars == <<sync>>
vars == <<tvars, cvars, lvars, evars, svars, mvars>>

-----------------------------------------------------------------------------
(* Bounds *)

\* Rows of ha_tunnel_requests the remote endpoint ever holds.
NumReq == 2
\* How many status writes of one request the environment lets fail.
MaxFailedWrites == 1

\* How often CameraStreamer.start is called on the one streamer.
MaxThreads == 2
\* Relay connections websocket.create_connection ever opens.
MaxConns == 2
\* Frames the camera proxy ever delivers.
MaxFrames == 3

\* TunnelClient objects ever created.
MaxClients == 2
\* Poll threads ever started.
MaxPollThreads == 2

\* Readings in the state list of one classification pass.
MaxReadings == 2
\* Classification passes made on the same state list.
MaxPasses == 2

\* Camera entities Home Assistant ever reports.
MaxCameras == 2
\* CameraStreamer objects ever created.
MaxStreamers == 2

ReqIds == 1..NumReq
Cameras == 1..MaxCameras
Streamers == 1..MaxStreamers
Clients == 1..MaxClients
PollThreads == 1..MaxPollThreads
Threads == 1..MaxThreads
Conns == 1..MaxConns
Frames == 1..MaxFrames

-----------------------------------------------------------------------------
(* TunnelClient: data *)

SupportedActions == {"ping", "list_entities", "get_state", "get_states", "call_service"}

\* The actions a request record may carry: the supported ones, one that is
\* not supported, and None (the 'action' key is missing).
ActionValues == SupportedActions \cup {"reboot", "None"}

\* A row as the listing returns it.  payload is the shape of its 'request'
\* column: a JSON object ("dict") or JSON null ("null"); action is what
\* request_data.get('action') yields on an object.
RequestShapes ==
    {[payload |-> "dict", action |-> a] : a \in ActionValues}
        \cup {[payload |-> "null", action |-> "None"]}

\* Every order in which the rows of S can be returned.
Orderings(S) ==
    {s \in [1..Cardinality(S) -> S] : \A i, j \in 1..Cardinality(S) : s[i] = s[j] => i = j}

Pending == {id \in ReqIds : remote[id] = "pending"}

\* (mutant) the for loop takes the rows from the last to the first.
RequestAtReversed(k) == requests_list[Len(requests_list) + 1 - k]

\* for req in requests_list: the row of the k-th iteration.
RequestAt(k) == requests_list[k]

\* (mutant) the cycle is made whether authenticated or not.
SkipsCycleNever == FALSE

\* if not self.integration.authenticated: return
SkipsCycle == ~authenticated

\* req.get('request', {}).get('action') raises AttributeError when the
\* 'request' column is not an object.
ParseRaises(req) == req.payload # "dict"

\* The actions that call Home Assistant (all but ping).
CallsLocal(action) == action \in SupportedActions \ {"ping"}

\* _list_entities, _get_state, _get_all_states, _call_service: each returns
\* the payload, or a dict {'error': ...} when Home Assistant answers with a
\* non-success status or the call raises.  None of them raises.
LocalResult(ok) == IF ok THEN "payload" ELSE "error_dict"

\* The if/elif chain of _handle_request: the (result, error) pair.
Dispatch(action, ok) ==
    IF action = "ping" THEN [result |-> "pong", error |-> "None"]
    ELSE IF action \in {"list_entities", "get_state", "get_states", "call_service"}
    THEN [result |-> LocalResult(ok), error |-> "None"]
    ELSE [result |-> "None", error |-> "Unknown action: " \o action]

\* _update_request: the status of the update.
StatusOf(error) == IF error = "None" THEN "completed" ELSE "error"

\* _update_request: the body of the PATCH.
UpdateData(id, result, error) ==
    [id |-> id, status |-> StatusOf(error), response |-> result, error |-> error]

\* What the for loop of _process_pending_requests does when _handle_request
\* raises: the exception leaves the loop and is caught by the except of
\* _process_pending_requests, so the rest of the batch is not handled.
AfterRaise == "sleep"

\* (mutant) a failed listing ends the poll thread.
AfterListFailureExits == "done"

\* The poll loop after a cycle whose listing failed: sleep, then loop again.
AfterListFailure == "sleep"

-----------------------------------------------------------------------------
(* get_electricity_sensors: data *)

\* The keys of electricity_data.
Fields ==
    {"current_power", "today_usage", "month_usage", "total_import", "total_export",
     "voltage", "current_amps", "power_factor",
     "phase_l1_voltage", "phase_l1_current", "phase_l1_power",
     "phase_l2_voltage", "phase_l2_current", "phase_l2_power",
     "phase_l3_voltage", "phase_l3_current", "phase_l3_power"}

\* The values a key holds: None, or a float.  A float is held in thousandths
\* (2.5 is Float(2500)), so that a division by 1000 stays exact; float('nan')
\* is the float NaN.
None == [kind |-> "None", milli |-> 0]
Float(m) == [kind |-> "float", milli |-> m]
NaN == [kind |-> "nan", milli |-> 0]

\* electricity_data as the pass creates it: every key None.
FreshData == [f \in Fields |-> None]

\* The {} that is returned when the pass raises.
EmptyDict == [f \in {} |-> None]

\* The 'state' strings of the readings; "null" is a JSON null (None).
RawValues == {"unavailable", "unknown", "", "abc", "nan", "null", "2.5", "1500", "800", "0"}

\* float(state_value) raises ValueError or TypeError.
FloatRaises(s) == s \in {"unavailable", "unknown", "", "abc", "null"}

\* float(state_value) where it does not raise.
FloatOf(s) ==
    CASE s = "2.5" -> Float(2500)
      [] s = "1500" -> Float(1500000)
      [] s = "800" -> Float(800000)
      [] s = "nan" -> NaN
      [] s = "0" -> Float(0)
      [] OTHER -> None

\* value * 1000
Times1000(v) == IF v.kind = "float" THEN Float(v.milli * 1000) ELSE v

\* The words the pass looks for in the lowered entity id and friendly name.
\* A text is the set of these words it contains.
L1Words == {"l1", "phase_1", "fas_1", "fas 1"}
L2Words == {"l2", "phase_2", "fas_2", "fas 2"}
L3Words == {"l3", "phase_3", "fas_3", "fas 3"}
TodayWords == {"today", "daily", "idag", "dygn"}
MonthWords == {"month", "månad"}
ImportWords == {"import", "consumption", "förbrukning"}
Words ==
    {"power", "effekt", "total", "energy", "energi", "export", "voltage", "spänning",
     "current", "ampere", "ström", "power_factor"}
        \cup L1Words \cup L2Words \cup L3Words \cup TodayWords \cup MonthWords
        \cup ImportWords

\* entity_id or friendly_name is JSON null: .lower() raises AttributeError.
NullText == {"None"}

\* word in text ('power' is found in a text that has 'power_factor').
Has(text, word) == word \in text \/ (word = "power" /\ "power_factor" \in text)

HasAny(text, words) == \E w \in words : Has(text, w)

\* A reading: one element of the state list.
Reading(state, unit, device_class, entity, name) ==
    [state |-> state, unit |-> unit, device_class |-> device_class,
     entity |-> entity, name |-> name]

\* search_text = f"{entity_lower} {name_lower}"
SearchText(r) == r.entity \cup r.name

\* if state_value in ['unavailable', 'unknown', '']: continue, and the
\* continue after float() raised.
Skips(r) == r.state \in {"unavailable", "unknown", ""} \/ FloatRaises(r.state)

\* entity_id.lower() / friendly_name.lower() raise on a reading that was not
\* skipped; the except of get_electricity_sensors returns {}.
Raises(r) == ~Skips(r) /\ (r.entity = NullText \/ r.name = NullText)

IsPower(r) ==
    \/ r.device_class = "power"
    \/ r.unit \in {"W", "kW"}
    \/ Has(r.entity, "power")
    \/ Has(r.name, "effekt")

IsEnergy(r) ==
    \/ r.device_class = "energy"
    \/ r.unit = "kWh"
    \/ HasAny(SearchText(r), {"energy", "energi"})

IsVoltage(r) ==
    \/ r.device_class = "voltage"
    \/ r.unit = "V"
    \/ HasAny(SearchText(r), {"voltage", "spänning"})

IsCurrent(r) ==
    \/ r.device_class = "current"
    \/ r.unit = "A"
    \/ HasAny(SearchText(r), {"current", "ampere", "ström"})

\* The phase the if/elif chains find in search_text (0: none).
Phase(r) ==
    IF HasAny(SearchText(r), L1Words) THEN 1
    ELSE IF HasAny(SearchText(r), L2Words) THEN 2
    ELSE IF HasAny(SearchText(r), L3Words) THEN 3
    ELSE 0

\* (mutant) a power value is stored as it was read.
PowerValueUnscaled(value, unit) == value

\* value if unit != 'kW' else value * 1000
PowerValue(value, unit) == IF unit # "kW" THEN value ELSE Times1000(value)

\* (mutant) every power reading without 'total' is taken, the last one stays.
TakesCurrentPowerLast(d, r) == IsPower(r) /\ ~Has(SearchText(r), "total")

\* (mutant) the first power reading is taken, total or not.
TakesCurrentPowerFirst(d, r) == IsPower(r) /\ d.current_power = None

\* if is_power: if 'total' not in search_text and current_power is None
TakesCurrentPower(d, r) ==
    IsPower(r) /\ ~Has(SearchText(r), "total") /\ d.current_power = None

\* (mutant) a total power reading is not copied to its phase.
TakesPhasePowerUnlessTotal(r) ==
    IsPower(r) /\ Phase(r) # 0 /\ ~Has(SearchText(r), "total")

\* The phase power block: if is_power, and one of the phase branches matches.
TakesPhasePower(r) == IsPower(r) /\ Phase(r) # 0

\* (mutant) the scalar key is stored whatever it holds.
ScalarFreeAlways(d, key) == TRUE

\* elif electricity_data['voltage'] is None / ['current_amps'] is None
ScalarFree(d, key) == d[key] = None

\* The key an energy reading is stored under ("" when no branch matches).
EnergyKey(r) ==
    IF HasAny(SearchText(r), TodayWords) THEN "today_usage"
    ELSE IF HasAny(SearchText(r), MonthWords) THEN "month_usage"
    ELSE IF HasAny(SearchText(r), ImportWords) THEN "total_import"
    ELSE IF Has(SearchText(r), "export") THEN "total_export"
    ELSE ""

\* The key of the phase of r for a quantity ("voltage", "current", "power").
PhaseKey(r, quantity) ==
    IF Phase(r) = 1 THEN "phase_l1_" \o quantity
    ELSE IF Phase(r) = 2 THEN "phase_l2_" \o quantity
    ELSE "phase_l3_" \o quantity

\* The body of the for loop after float(state_value): the blocks for power,
\* energy, voltage, current, phase power and power factor, in this order.
ClassifyOne(d, r) ==
    LET value == FloatOf(r.state)
        d1 == IF TakesCurrentPower(d, r)
              THEN [d EXCEPT !.current_power = PowerValue(value, r.unit)]
              ELSE d
        d2 == IF IsEnergy(r) /\ EnergyKey(r) # ""
              THEN [d1 EXCEPT ![EnergyKey(r)] = value]
              ELSE d1
        d3 == IF ~IsVoltage(r) THEN d2
              ELSE IF Phase(r) # 0 THEN [d2 EXCEPT ![PhaseKey(r, "voltage")] = value]
              ELSE IF ScalarFree(d2, "voltage") THEN [d2 EXCEPT !.voltage = value]
              ELSE d2
        d4 == IF ~IsCurrent(r) THEN d3
              ELSE IF Phase(r) # 0 THEN [d3 EXCEPT ![PhaseKey(r, "current")] = value]
              ELSE IF ScalarFree(d3, "current_amps") THEN [d3 EXCEPT !.current_amps = value]
              ELSE d3
        d5 == IF TakesPhasePower(r)
              THEN [d4 EXCEPT ![PhaseKey(r, "power")] = PowerValue(value, r.unit)]
              ELSE d4
    IN IF Has(SearchText(r), "power_factor") \/ r.device_class = "power_factor"
       THEN [d5 EXCEPT !.power_factor = value]
       ELSE d5

\* The pass as a function of the state list: what get_electricity_sensors
\* returns when the for loop has run over list from position k with the
\* record d.
RECURSIVE PassFrom(_, _, _)
PassFrom(d, list, k) ==
    IF k > Len(list) THEN d
    ELSE IF Raises(list[k]) THEN EmptyDict
    ELSE PassFrom(IF Skips(list[k]) THEN d ELSE ClassifyOne(d, list[k]), list, k + 1)

Classify(list) == PassFrom(FreshData, list, 1)

\* The readings the passes are run on.
SampleReadings ==
    {Reading("800", "W", "power", {"power"}, {}),
     Reading("2.5", "kW", "", {}, {"effekt"}),
     Reading("1500", "W", "power", {"total", "power"}, {}),
     Reading("2.5", "kW", "power", {"power", "l1"}, {}),
     Reading("1500", "Wh", "energy", {"energy", "today"}, {}),
     Reading("2.5", "kWh", "", {"month"}, {}),
     Reading("800", "W", "", {"phase_2"}, {"effekt"}),
     Reading("800", "W", "", {}, NullText),
     Reading("0", "W", "power", {"power"}, {}),
     Reading("800", "W", "power", {"current", "power"}, {}),
     Reading("2.5", "", "power_factor", {"power_factor"}, {}),
     Reading("1500", "W", "power", {"total", "power", "l3"}, {}),
     Reading("2.5", "kWh", "energy", {"energy"}, {}),
     Reading("1500", "kWh", "energy", {"energy", "import"}, {}),
     Reading("800", "V", "", {}, {}),
     Reading("1500", "V", "voltage", {"voltage"}, {}),
     Reading("2.5", "V", "", {"fas_1"}, {"spänning"}),
     Reading("2.5", "A", "current", {}, {}),
     Reading("1500", "A", "", {}, {"ström"}),
     Reading("800", "A", "", {"l2"}, {})}
        \cup {Reading(s, "W", "power", {"power"}, {}) :
                 s \in {"unavailable", "unknown", "", "abc", "nan", "null"}}

\* Every state list of at most MaxReadings sample readings.
StateLists == UNION {[1..n -> SampleReadings] : n \in 0..MaxReadings}

-----------------------------------------------------------------------------
(* TunnelClient: initial state *)

TunnelInit ==
    /\ authenticated = FALSE
    /\ running = FALSE
    /\ tpc = "new"
    /\ reqs \in [ReqIds -> RequestShapes]
    /\ remote = [id \in ReqIds |-> "pending"]
    /\ requests_list = <<>>
    /\ idx = 0
    /\ cur = [result |-> "None", error |-> "None"]
    /\ listing = "none"
    /\ cycle_execs = <<>>
    /\ cycle_log = <<>>
    /\ execs = [id \in ReqIds |-> 0]
    /\ writes = [id \in ReqIds |-> 0]

\* MinHustomteIntegration.__init__: no tunnel client yet, no poll thread.
LifecycleInit ==
    /\ tunnel_client = 0
    /\ client_running = [c \in Clients |-> FALSE]
    /\ ppc = [p \in PollThreads |-> "new"]
    /\ pclient = [p \in PollThreads |-> 0]

\* No classification pass was made.
ClassifierIdle ==
    /\ states = <<>>
    /\ electricity_data = FreshData
    /\ epos = 0
    /\ epc = "idle"
    /\ returned = <<>>

\* CameraStreamer.__init__, and no connection made yet.
CameraInit ==
    /\ cam_running = FALSE
    /\ ws = 0
    /\ conn = [c \in Conns |-> [state |-> "unused", connected |-> FALSE, started |-> FALSE]]
    /\ spc = [t \in Threads |-> "new"]
    /\ rc = [t \in Threads |-> 0]
    /\ frame_data = [t \in Threads |-> 0]
    /\ fetched = 0
    /\ sent = {}
    /\ send_count = [f \in Frames |-> 0]
    /\ no_delay = [t \in Threads |-> FALSE]
    /\ stopped = FALSE
    /\ skipped = [t \in Threads |-> FALSE]

\* MinHustomteIntegration.__init__: camera_streamers = {}
StreamersInit ==
    /\ camera_streamers = [e \in Cameras |-> 0]
    /\ streamer_entity = [s \in Streamers |-> 0]
    /\ streamer_running = [s \in Streamers |-> FALSE]
    /\ streamer_ws = [s \in Streamers |-> "None"]
    /\ streamer_pc = [s \in Streamers |-> "new"]
    /\ streamer_sent = [s \in Streamers |-> FALSE]
    /\ stopping = FALSE
    /\ stop_todo = {}

\* A dictionary without keys, and the record of a sync that was not made.
NoSync ==
    [called |-> FALSE, authenticated |-> FALSE, read |-> EmptyDict,
     posted |-> FALSE, electricity |-> EmptyDict, result |-> FALSE]

\* sync_electricity was not called.
SyncIdle == sync = NoSync

\* The tunnel client is not started and the integration is not
\* authenticated (MinHustomteIntegration.__init__).
TunnelUnauthenticated ==
    /\ authenticated = FALSE
    /\ running = FALSE
    /\ tpc = "new"
    /\ reqs = [id \in ReqIds |-> [payload |-> "dict", action |-> "ping"]]
    /\ remote = [id \in ReqIds |-> "completed"]
    /\ requests_list = <<>>
    /\ idx = 0
    /\ cur = [result |-> "None", error |-> "None"]
    /\ listing = "none"
    /\ cycle_execs = <<>>
    /\ cycle_log = <<>>
    /\ execs = [id \in ReqIds |-> 0]
    /\ writes = [id \in ReqIds |-> 0]

-----------------------------------------------------------------------------
(* TunnelClient: actions *)

\* load_credentials / authenticate succeed.
Authenticate ==
    /\ ~authenticated
    /\ authenticated' = TRUE
    /\ UNCHANGED <<running, tpc, reqs, remote, requests_list, idx, cur, listing,
                   cycle_execs, cycle_log, execs, writes>>

\* TunnelClient.start
TunnelStart ==
    /\ tpc = "new"
    /\ running' = TRUE
    /\ tpc' = "loop"
    /\ UNCHANGED <<authenticated, reqs, remote, requests_list, idx, cur, listing,
                   cycle_execs, cycle_log, execs, writes>>

\* TunnelClient.stop
TunnelStop ==
    /\ running
    /\ running' = FALSE
    /\ UNCHANGED <<authenticated, tpc, reqs, remote, requests_list, idx, cur,
                   listing, cycle_execs, cycle_log, execs, writes>>

\* _poll_loop: the while test, and the entry of _process_pending_requests
\* (which returns at once when the integration is not authenticated).
PollLoop ==
    /\ tpc = "loop"
    /\ tpc' = IF ~running THEN "done"
              ELSE IF SkipsCycle THEN "sleep"
              ELSE "list"
    /\ UNCHANGED <<authenticated, running, reqs, remote, requests_list, idx, cur,
                   listing, cycle_execs, cycle_log, execs, writes>>

\* _process_pending_requests: the GET of the pending rows fails (exception,
\* timeout, a status other than 200, a body that is not JSON).
ListFails ==
    /\ tpc = "list"
    /\ listing' = "fail"
    /\ tpc' = AfterListFailure
    /\ UNCHANGED <<authenticated, running, reqs, remote, requests_list, idx, cur,
                   cycle_execs, cycle_log, execs, writes>>

\* _process_pending_requests: the GET answers 200 with the pending rows.
ListPending ==
    /\ tpc = "list"
    /\ \E batch \in Orderings(Pending) :
          /\ requests_list' = batch
          /\ idx' = IF batch = <<>> THEN 0 ELSE 1
          /\ tpc' = IF batch = <<>> THEN "sleep" ELSE "handle"
    /\ listing' = "ok"
    /\ UNCHANGED <<authenticated, running, reqs, remote, cur, cycle_execs, cycle_log, execs,
                   writes>>

\* _handle_request up to the call of _update_request: read the record,
\* dispatch on the action, run the local operation.  The two .get calls on
\* the record stand before the try: an exception of theirs leaves
\* _handle_request.
HandleRequest ==
    /\ tpc = "handle"
    /\ LET id == RequestAt(idx)
           req == reqs[id]
       IN IF ParseRaises(req)
          THEN /\ tpc' = AfterRaise
               /\ UNCHANGED <<cur, execs, cycle_execs>>
          ELSE \E ok \in BOOLEAN :
                  /\ ok \/ CallsLocal(req.action)
                  /\ cur' = Dispatch(req.action, ok)
                  /\ execs' = [execs EXCEPT ![id] =
                                  IF req.action \in SupportedActions THEN @ + 1 ELSE @]
                  /\ cycle_execs' = IF req.action \in SupportedActions
                                    THEN Append(cycle_execs, id) ELSE cycle_execs
                  /\ tpc' = "write"
    /\ UNCHANGED <<authenticated, running, reqs, remote, requests_list, idx,
                   listing, cycle_log, writes>>

\* _update_request: one PATCH of the row, which the remote applies or not
\* (a failed PATCH is logged and not retried; _update_request never raises).
\* Then the for loop advances.
UpdateRequest ==
    /\ tpc = "write"
    /\ LET id == RequestAt(idx)
           data == UpdateData(id, cur.result, cur.error)
       IN \E applied \in BOOLEAN :
             /\ applied \/ writes[id] < MaxFailedWrites
             /\ cycle_log' = Append(cycle_log, [data |-> data, applied |-> applied])
             /\ writes' = [writes EXCEPT ![id] = @ + 1]
             /\ remote' = IF applied THEN [remote EXCEPT ![id] = data.status]
                          ELSE remote
    /\ idx' = idx + 1
    /\ tpc' = IF idx < Len(requests_list) THEN "handle" ELSE "sleep"
    /\ UNCHANGED <<authenticated, running, reqs, requests_list, cur, listing,
                   cycle_execs, execs>>

\* _poll_loop: time.sleep(poll_interval) ends; the locals of the cycle go.
PollSleep ==
    /\ tpc = "sleep"
    /\ tpc' = "loop"
    /\ requests_list' = <<>>
    /\ idx' = 0
    /\ cur' = [result |-> "None", error |-> "None"]
    /\ listing' = "none"
    /\ cycle_execs' = <<>>
    /\ cycle_log' = <<>>
    /\ UNCHANGED <<authenticated, running, reqs, remote, execs, writes>>

PollThread ==
    PollLoop \/ ListFails \/ ListPending \/ HandleRequest \/ UpdateRequest \/ PollSleep

TunnelNext ==
    \/ Authenticate /\ UNCHANGED <<cvars, lvars, evars, svars, mvars>>
    \/ TunnelStart /\ UNCHANGED <<cvars, lvars, evars, svars, mvars>>
    \/ TunnelStop /\ UNCHANGED <<cvars, lvars, evars, svars, mvars>>
    \/ PollLoop /\ UNCHANGED <<cvars, lvars, evars, svars, mvars>>
    \/ ListFails /\ UNCHANGED <<cvars, lvars, evars, svars, mvars>>
    \/ ListPending /\ UNCHANGED <<cvars, lvars, evars, svars, mvars>>
    \/ HandleRequest /\ UNCHANGED <<cvars, lvars, evars, svars, mvars>>
    \/ UpdateRequest /\ UNCHANGED <<cvars, lvars, evars, svars, mvars>>
    \/ PollSleep /\ UNCHANGED <<cvars, lvars, evars, svars, mvars>>

TunnelStartState == TunnelInit /\ CameraInit /\ LifecycleInit /\ ClassifierIdle /\ StreamersInit /\ SyncIdle

TunnelSpec == TunnelStartState /\ [][TunnelNext]_vars

\* The poll thread is a running thread: it is scheduled, its sleeps end and
\* its HTTP calls return (each carries a timeout).
TunnelFair ==
    TunnelStartState /\ [][TunnelNext]_vars /\ WF_vars(PollThread /\ UNCHANGED <<cvars, lvars, evars, svars, mvars>>)

-----------------------------------------------------------------------------
(* CameraStreamer: data *)

\* What the relay may send while the session waits for its command: the
\* start command, a JSON object of another type, text that is not JSON, a
\* JSON value that is not an object, a binary message.
Messages == {"start_stream", "other_type", "not_json", "not_object", "binary"}

\* json.loads(msg) and data.get('type'): every message that is not a JSON
\* object makes one of the two raise.
DecodeRaises(m) == m \in {"not_json", "not_object", "binary"}

\* The connection create_connection returns next.
FreshConn == CHOOSE c \in Conns : conn[c].state = "unused" /\ \A d \in Conns : d < c => conn[d].state # "unused"

\* The thread CameraStreamer.start creates next.
FreshThread == CHOOSE t \in Threads : spc[t] = "new" /\ \A u \in Threads : u < t => spc[u] # "new"

\* The test of _stream_loop before it connects: not self.ws or not self.ws.connected
NeedsConnect == IF ws = 0 THEN TRUE ELSE ~conn[ws].connected

\* The while test of _send_frames.
MaySend == cam_running /\ ws # 0 /\ conn[ws].connected

\* (mutant) a failed fetch leaves the previous frame in frame_data.
FrameToSendStale(held, got) == IF got = 0 THEN held ELSE got

\* frame_data = self._get_camera_frame(): the frame fetched, None (0) when
\* the fetch failed.
FrameToSend(held, got) == got

\* (mutant) the stream loop does not look at the running flag.
StreamGoesOnAlways == TRUE

\* The while test of _stream_loop.
StreamGoesOn == cam_running

\* (mutant) a fetch that gives no frame ends _send_frames.
AfterEmptyFetchLeaves == "top"

\* if frame_data: ... is passed over when the fetch gave no frame; the
\* thread sleeps frame_interval and comes back to the while test.
AfterEmptyFetch == "stream"

\* (mutant) a failed connection attempt ends the stream thread.
AfterConnectFailGivesUp == "done"

\* if not self._connect(): time.sleep(reconnect_delay); continue
AfterConnectFail == "backoff"

\* The relay connection of the session was closed or failed under it.
LostUnder == cam_running /\ ws # 0 /\ conn[ws].state = "lost"

-----------------------------------------------------------------------------
(* CameraStreamer: actions *)

\* CameraStreamer.start
CamStart ==
    /\ \E t \in Threads : spc[t] = "new"
    /\ cam_running' = TRUE
    /\ spc' = [spc EXCEPT ![FreshThread] = "top"]
    /\ stopped' = FALSE
    /\ UNCHANGED <<ws, conn, rc, frame_data, fetched, sent, send_count, no_delay,
                   skipped>>

\* CameraStreamer.stop
CamStop ==
    /\ spc[1] # "new"
    /\ cam_running' = FALSE
    /\ conn' = IF ws # 0
               THEN [conn EXCEPT ![ws] = [@ EXCEPT !.state = "closed", !.connected = FALSE]]
               ELSE conn
    /\ ws' = 0
    /\ stopped' = TRUE
    /\ UNCHANGED <<spc, rc, frame_data, fetched, sent, send_count, no_delay,
                   skipped>>

\* The relay closes the connection, or the network under it fails.  The
\* websocket object learns of it on a later call.
TransportLoss(c) ==
    /\ conn[c].state = "open"
    /\ conn' = [conn EXCEPT ![c].state = "lost"]
    /\ UNCHANGED <<cam_running, ws, spc, rc, frame_data, fetched, sent, send_count,
                   no_delay, stopped, skipped>>

\* _stream_loop: the while test, the connection test and, with a connection,
\* the call of self.ws.recv().
LoopTop(t) ==
    /\ spc[t] = "top"
    /\ IF ~StreamGoesOn THEN spc' = [spc EXCEPT ![t] = "done"] /\ rc' = rc
       ELSE IF NeedsConnect THEN spc' = [spc EXCEPT ![t] = "connecting"] /\ rc' = rc
       ELSE spc' = [spc EXCEPT ![t] = "recv"] /\ rc' = [rc EXCEPT ![t] = ws]
    /\ UNCHANGED <<cam_running, ws, conn, frame_data, fetched, sent, send_count,
                   no_delay, stopped, skipped>>

\* _connect: create_connection succeeds; self.ws is the new connection.
ConnectOk(t) ==
    /\ spc[t] = "connecting"
    /\ \E c \in Conns : conn[c].state = "unused"
    /\ conn' = [conn EXCEPT ![FreshConn] =
                   [state |-> "open", connected |-> TRUE, started |-> FALSE]]
    /\ ws' = FreshConn
    /\ spc' = [spc EXCEPT ![t] = "recv"]
    /\ rc' = [rc EXCEPT ![t] = FreshConn]
    /\ no_delay' = [no_delay EXCEPT ![t] = FALSE]
    /\ UNCHANGED <<cam_running, frame_data, fetched, sent, send_count, stopped,
                   skipped>>

\* _connect: create_connection raises; _stream_loop sleeps reconnect_delay.
ConnectFail(t) ==
    /\ spc[t] = "connecting"
    /\ spc' = [spc EXCEPT ![t] = AfterConnectFail]
    /\ no_delay' = [no_delay EXCEPT ![t] = FALSE]
    /\ UNCHANGED <<cam_running, ws, conn, rc, frame_data, fetched, sent, send_count,
                   stopped, skipped>>

\* time.sleep(reconnect_delay) ends.
BackoffDone(t) ==
    /\ spc[t] = "backoff"
    /\ spc' = [spc EXCEPT ![t] = "top"]
    /\ no_delay' = [no_delay EXCEPT ![t] = FALSE]
    /\ UNCHANGED <<cam_running, ws, conn, rc, frame_data, fetched, sent, send_count,
                   stopped, skipped>>

\* recv() times out: continue.
RecvTimeout(t) ==
    /\ spc[t] = "recv"
    /\ conn[rc[t]].state \in {"open", "lost"}
    /\ spc' = [spc EXCEPT ![t] = "top"]
    /\ rc' = [rc EXCEPT ![t] = 0]
    /\ UNCHANGED <<cam_running, ws, conn, frame_data, fetched, sent, send_count,
                   no_delay, stopped, skipped>>

\* recv() returns message m.  start_stream enters _send_frames; another JSON
\* object is passed over; anything else raises in json.loads or data.get, and
\* the handler sets self.ws = None and sleeps reconnect_delay.
RecvMessage(t, m) ==
    /\ spc[t] = "recv"
    /\ conn[rc[t]].state = "open"
    /\ IF DecodeRaises(m)
       THEN /\ ws' = 0
            /\ spc' = [spc EXCEPT ![t] = "backoff"]
            /\ UNCHANGED <<conn, frame_data>>
       ELSE IF m = "start_stream"
       THEN /\ conn' = [conn EXCEPT ![rc[t]].started = TRUE]
            /\ spc' = [spc EXCEPT ![t] = "stream"]
            /\ frame_data' = [frame_data EXCEPT ![t] = 0]
            /\ ws' = ws
       ELSE /\ spc' = [spc EXCEPT ![t] = "top"]
            /\ UNCHANGED <<ws, conn, frame_data>>
    /\ rc' = [rc EXCEPT ![t] = 0]
    /\ skipped' = [skipped EXCEPT ![t] = FALSE]
    /\ UNCHANGED <<cam_running, fetched, sent, send_count, no_delay, stopped>>

\* recv() raises on a connection that is closed or lost (the websocket
\* object closes its socket); the handler sets self.ws = None and sleeps.
RecvError(t) ==
    /\ spc[t] = "recv"
    /\ conn[rc[t]].state \in {"lost", "closed"}
    /\ conn' = [conn EXCEPT ![rc[t]] = [@ EXCEPT !.state = "closed", !.connected = FALSE]]
    /\ ws' = 0
    /\ spc' = [spc EXCEPT ![t] = "backoff"]
    /\ rc' = [rc EXCEPT ![t] = 0]
    /\ UNCHANGED <<cam_running, frame_data, fetched, sent, send_count, no_delay,
                   stopped, skipped>>

\* _send_frames: the while test fails and _send_frames returns to the loop
\* of _stream_loop.
StreamExit(t) ==
    /\ spc[t] = "stream"
    /\ ~MaySend
    /\ spc' = [spc EXCEPT ![t] = "top"]
    /\ no_delay' = [no_delay EXCEPT ![t] = LostUnder]
    /\ frame_data' = [frame_data EXCEPT ![t] = 0]
    /\ skipped' = [skipped EXCEPT ![t] = FALSE]
    /\ UNCHANGED <<cam_running, ws, conn, rc, fetched, sent, send_count, stopped>>

\* _send_frames: the while test holds and _get_camera_frame returns a frame
\* (got is the new frame) or None (got = 0): without a frame nothing is sent
\* and the loop sleeps frame_interval.  (The keepalive ping changes nothing
\* here: its failure is swallowed.)
FetchFrame(t) ==
    /\ spc[t] = "stream"
    /\ MaySend
    /\ \E got \in {0, fetched + 1} :
          /\ got \in Frames \cup {0}
          /\ fetched' = IF got = 0 THEN fetched ELSE got
          /\ frame_data' = [frame_data EXCEPT ![t] = FrameToSend(@, got)]
          /\ spc' = [spc EXCEPT ![t] =
                        IF FrameToSend(frame_data[t], got) # 0 THEN "send"
                        ELSE AfterEmptyFetch]
          /\ skipped' = [skipped EXCEPT ![t] = (got = 0)]
    /\ UNCHANGED <<cam_running, ws, conn, rc, sent, send_count, no_delay, stopped>>

\* self.ws.send_binary(frame_data) goes out on the connection self.ws names
\* now; then the loop sleeps frame_interval.
SendFrame(t) ==
    /\ spc[t] = "send"
    /\ ws # 0
    /\ conn[ws].state \in {"open", "lost"}
    /\ sent' = sent \cup {ws}
    /\ send_count' = [send_count EXCEPT ![frame_data[t]] = @ + 1]
    /\ spc' = [spc EXCEPT ![t] = "stream"]
    /\ UNCHANGED <<cam_running, ws, conn, rc, frame_data, fetched, no_delay, stopped,
                   skipped>>

\* send_binary raises (self.ws is None, or the connection is closed or
\* lost): break, and _send_frames returns.  After a loss the websocket
\* object may or may not report connected afterwards.
SendFails(t) ==
    /\ spc[t] = "send"
    /\ IF ws = 0 THEN TRUE ELSE conn[ws].state \in {"lost", "closed"}
    /\ \E still \in BOOLEAN :
          IF ws # 0 /\ conn[ws].state = "lost"
          THEN conn' = [conn EXCEPT ![ws].connected = still]
          ELSE still /\ conn' = conn
    /\ spc' = [spc EXCEPT ![t] = "top"]
    /\ no_delay' = [no_delay EXCEPT ![t] = LostUnder]
    /\ frame_data' = [frame_data EXCEPT ![t] = 0]
    /\ skipped' = [skipped EXCEPT ![t] = FALSE]
    /\ UNCHANGED <<cam_running, ws, rc, fetched, sent, send_count, stopped>>

\* The steps of the streamer after start(): stop(), the relay, the threads.
CameraSteps ==
    \/ CamStop /\ UNCHANGED <<tvars, lvars, evars, svars, mvars>>
    \/ (\E c \in Conns : TransportLoss(c)) /\ UNCHANGED <<tvars, lvars, evars, svars, mvars>>
    \/ (\E t \in Threads : LoopTop(t)) /\ UNCHANGED <<tvars, lvars, evars, svars, mvars>>
    \/ (\E t \in Threads : ConnectOk(t)) /\ UNCHANGED <<tvars, lvars, evars, svars, mvars>>
    \/ (\E t \in Threads : ConnectFail(t)) /\ UNCHANGED <<tvars, lvars, evars, svars, mvars>>
    \/ (\E t \in Threads : BackoffDone(t)) /\ UNCHANGED <<tvars, lvars, evars, svars, mvars>>
    \/ (\E t \in Threads : RecvTimeout(t)) /\ UNCHANGED <<tvars, lvars, evars, svars, mvars>>
    \/ (\E t \in Threads, m \in Messages : RecvMessage(t, m)) /\ UNCHANGED <<tvars, lvars, evars, svars, mvars>>
    \/ (\E t \in Threads : RecvError(t)) /\ UNCHANGED <<tvars, lvars, evars, svars, mvars>>
    \/ (\E t \in Threads : StreamExit(t)) /\ UNCHANGED <<tvars, lvars, evars, svars, mvars>>
    \/ (\E t \in Threads : FetchFrame(t)) /\ UNCHANGED <<tvars, lvars, evars, svars, mvars>>
    \/ (\E t \in Threads : SendFrame(t)) /\ UNCHANGED <<tvars, lvars, evars, svars, mvars>>
    \/ (\E t \in Threads : SendFails(t)) /\ UNCHANGED <<tvars, lvars, evars, svars, mvars>>

\* The streamer as start_camera_streamers uses it: a CameraStreamer is
\* created, started once, and stopped by stop_camera_streamers.
CameraNext ==
    \/ (\A t \in Threads : spc[t] = "new") /\ CamStart /\ UNCHANGED <<tvars, lvars, evars, svars, mvars>>
    \/ CameraSteps

\* The streamer through its public methods in any order: start() may be
\* called again, after stop() or without it, and each call creates a thread.
CameraRestartNext ==
    \/ CamStart /\ UNCHANGED <<tvars, lvars, evars, svars, mvars>>
    \/ CameraSteps

\* The tunnel side at rest: one client, not started, nothing pending.
TunnelIdle ==
    /\ authenticated = TRUE
    /\ running = FALSE
    /\ tpc = "new"
    /\ reqs = [id \in ReqIds |-> [payload |-> "dict", action |-> "ping"]]
    /\ remote = [id \in ReqIds |-> "completed"]
    /\ requests_list = <<>>
    /\ idx = 0
    /\ cur = [result |-> "None", error |-> "None"]
    /\ listing = "none"
    /\ cycle_execs = <<>>
    /\ cycle_log = <<>>
    /\ execs = [id \in ReqIds |-> 0]
    /\ writes = [id \in ReqIds |-> 0]

CameraStartState == CameraInit /\ TunnelIdle /\ LifecycleInit /\ ClassifierIdle /\ StreamersInit /\ SyncIdle

CameraSpec == CameraStartState /\ [][CameraNext]_vars

CameraRestartSpec == CameraStartState /\ [][CameraRestartNext]_vars

\* The steps of stream thread t.
StreamThread(t) ==
    \/ LoopTop(t) \/ ConnectOk(t) \/ ConnectFail(t) \/ BackoffDone(t)
    \/ RecvTimeout(t) \/ (\E m \in Messages : RecvMessage(t, m)) \/ RecvError(t)
    \/ StreamExit(t) \/ FetchFrame(t) \/ SendFrame(t) \/ SendFails(t)

\* A stream thread is a running thread: it is scheduled, its sleeps end and
\* its calls return (create_connection, recv and the frame fetch each carry
\* a timeout).
StreamThreadsFair ==
    \A t \in Threads : WF_vars(StreamThread(t) /\ UNCHANGED <<tvars, lvars, evars, svars, mvars>>)

CameraFair == CameraStartState /\ [][CameraNext]_vars /\ StreamThreadsFair

-----------------------------------------------------------------------------
(* MinHustomteIntegration.tunnel_client: clients and their poll threads *)

\* The client TunnelClient(self) creates next: the first no thread runs for.
FreshClient ==
    CHOOSE c \in Clients :
       /\ \A p \in PollThreads : pclient[p] # c
       /\ \A d \in Clients : d < c => \E p \in PollThreads : pclient[p] = d

\* The thread threading.Thread(target=self._poll_loop) creates next.
FreshPollThread ==
    CHOOSE p \in PollThreads :
       ppc[p] = "new" /\ \A q \in PollThreads : q < p => ppc[q] # "new"

CanCreateClient == \E c \in Clients : \A p \in PollThreads : pclient[p] # c

CanCreateThread == \E p \in PollThreads : ppc[p] = "new"

\* The clients that were created (each was started when it was created).
Created == {c \in Clients : \E p \in PollThreads : pclient[p] = c}

\* start_tunnel_client: stop the client in place, if any, without waiting
\* for its thread; create a client and start it.
StartTunnelClient ==
    /\ CanCreateClient
    /\ CanCreateThread
    /\ tunnel_client' = FreshClient
    /\ client_running' =
          [c \in Clients |->
              IF c = FreshClient THEN TRUE
              ELSE IF c = tunnel_client THEN FALSE
              ELSE client_running[c]]
    /\ ppc' = [ppc EXCEPT ![FreshPollThread] = "test"]
    /\ pclient' = [pclient EXCEPT ![FreshPollThread] = FreshClient]

\* stop_tunnel_client
StopTunnelClient ==
    /\ tunnel_client # 0
    /\ client_running' = [client_running EXCEPT ![tunnel_client] = FALSE]
    /\ tunnel_client' = 0
    /\ UNCHANGED <<ppc, pclient>>

\* TunnelClient.start on a client that exists: running = True and one more
\* thread, whatever the threads the client already has.
ClientStart(c) ==
    /\ c \in Created
    /\ CanCreateThread
    /\ client_running' = [client_running EXCEPT ![c] = TRUE]
    /\ ppc' = [ppc EXCEPT ![FreshPollThread] = "test"]
    /\ pclient' = [pclient EXCEPT ![FreshPollThread] = c]
    /\ UNCHANGED tunnel_client

\* TunnelClient.stop
ClientStop(c) ==
    /\ c \in Created
    /\ client_running[c]
    /\ client_running' = [client_running EXCEPT ![c] = FALSE]
    /\ UNCHANGED <<tunnel_client, ppc, pclient>>

\* _poll_loop: while self.running; a cycle (_process_pending_requests)
\* begins when the test holds.
PollTest(p) ==
    /\ ppc[p] = "test"
    /\ ppc' = [ppc EXCEPT ![p] = IF client_running[pclient[p]] THEN "cycle" ELSE "done"]
    /\ UNCHANGED <<tunnel_client, client_running, pclient>>

\* _process_pending_requests returns: the cycle is over, the thread sleeps.
CycleEnd(p) ==
    /\ ppc[p] = "cycle"
    /\ ppc' = [ppc EXCEPT ![p] = "sleep"]
    /\ UNCHANGED <<tunnel_client, client_running, pclient>>

\* time.sleep(poll_interval) ends.
PollWake(p) ==
    /\ ppc[p] = "sleep"
    /\ ppc' = [ppc EXCEPT ![p] = "test"]
    /\ UNCHANGED <<tunnel_client, client_running, pclient>>

LifecycleNext ==
    \/ StartTunnelClient /\ UNCHANGED <<tvars, cvars, evars, svars, mvars>>
    \/ StopTunnelClient /\ UNCHANGED <<tvars, cvars, evars, svars, mvars>>
    \/ (\E c \in Clients : ClientStart(c)) /\ UNCHANGED <<tvars, cvars, evars, svars, mvars>>
    \/ (\E c \in Clients : ClientStop(c)) /\ UNCHANGED <<tvars, cvars, evars, svars, mvars>>
    \/ (\E p \in PollThreads : PollTest(p)) /\ UNCHANGED <<tvars, cvars, evars, svars, mvars>>
    \/ (\E p \in PollThreads : CycleEnd(p)) /\ UNCHANGED <<tvars, cvars, evars, svars, mvars>>
    \/ (\E p \in PollThreads : PollWake(p)) /\ UNCHANGED <<tvars, cvars, evars, svars, mvars>>

LifecycleStartState == LifecycleInit /\ TunnelIdle /\ CameraInit /\ ClassifierIdle /\ StreamersInit /\ SyncIdle

LifecycleSpec == LifecycleStartState /\ [][LifecycleNext]_vars

\* The steps of poll thread p.
PollThreadStep(p) == PollTest(p) \/ CycleEnd(p) \/ PollWake(p)

\* A poll thread is a running thread: it is scheduled, its sleep ends and
\* its cycle ends (the batch is finite and every HTTP call carries a timeout).
PollThreadsFair ==
    \A p \in PollThreads : WF_vars(PollThreadStep(p) /\ UNCHANGED <<tvars, cvars, evars, svars, mvars>>)

\* The agent as run() drives it: start_camera_streamers and
\* start_tunnel_client once each, the poll thread and the stream thread at
\* work, and at shutdown stop_tunnel_client and stop_camera_streamers.
AgentNext ==
    \/ (\A p \in PollThreads : ppc[p] = "new") /\ StartTunnelClient
          /\ UNCHANGED <<tvars, cvars, evars, svars, mvars>>
    \/ StopTunnelClient /\ UNCHANGED <<tvars, cvars, evars, svars, mvars>>
    \/ (\E p \in PollThreads : PollThreadStep(p)) /\ UNCHANGED <<tvars, cvars, evars, svars, mvars>>
    \/ CameraNext

AgentStartState == LifecycleStartState

AgentSpec == AgentStartState /\ [][AgentNext]_vars

AgentFair ==
    AgentStartState /\ [][AgentNext]_vars /\ PollThreadsFair /\ StreamThreadsFair

-----------------------------------------------------------------------------
(* get_electricity_sensors: the pass *)

\* (mutant) a repeated pass walks the list from its other end.
ReadingAtUnordered(k) ==
    IF returned = <<>> THEN states[k] ELSE states[Len(states) + 1 - k]

\* for state in states: the reading of iteration k.
ReadingAt(k) == states[k]

\* states = response.json(); electricity_data = {...: None}
StartPass ==
    /\ epc \in {"idle", "done"}
    /\ Len(returned) < MaxPasses
    /\ electricity_data' = FreshData
    /\ epos' = 1
    /\ epc' = "loop"
    /\ UNCHANGED <<states, returned>>

\* One iteration of the for loop.  A reading that raises ends the pass in
\* the except of get_electricity_sensors, which returns {}.
ClassifyStep ==
    /\ epc = "loop"
    /\ epos <= Len(states)
    /\ LET r == ReadingAt(epos)
       IN IF Raises(r)
          THEN /\ returned' = Append(returned, EmptyDict)
               /\ epc' = "done"
               /\ UNCHANGED <<electricity_data, epos>>
          ELSE /\ electricity_data' = IF Skips(r) THEN electricity_data
                                      ELSE ClassifyOne(electricity_data, r)
               /\ epos' = epos + 1
               /\ UNCHANGED <<returned, epc>>
    /\ UNCHANGED states

\* return electricity_data
EndPass ==
    /\ epc = "loop"
    /\ epos > Len(states)
    /\ returned' = Append(returned, electricity_data)
    /\ epc' = "done"
    /\ UNCHANGED <<states, electricity_data, epos>>

ClassifierNext ==
    \/ StartPass /\ UNCHANGED <<tvars, cvars, lvars, svars, mvars>>
    \/ ClassifyStep /\ UNCHANGED <<tvars, cvars, lvars, svars, mvars>>
    \/ EndPass /\ UNCHANGED <<tvars, cvars, lvars, svars, mvars>>

\* Home Assistant answered the GET of /states with a state list.
ClassifierInit ==
    /\ states \in StateLists
    /\ electricity_data = FreshData
    /\ epos = 0
    /\ epc = "idle"
    /\ returned = <<>>

ClassifierStartState == ClassifierInit /\ TunnelIdle /\ CameraInit /\ LifecycleInit /\ StreamersInit /\ SyncIdle

ClassifierSpec == ClassifierStartState /\ [][ClassifierNext]_vars

-----------------------------------------------------------------------------
(* MinHustomteIntegration.camera_streamers: one CameraStreamer per camera *)

\* (mutant) ws and running are attributes of the class, shared by all.
AttrsShared(s) == 1

\* self.ws, self.running: attributes of the instance, set in __init__.
AttrsOf(s) == s

\* if entity_id not in self.camera_streamers
NeedsStreamer(e) == camera_streamers[e] = 0

\* The CameraStreamer objects created so far.
CreatedStreamers == {s \in Streamers : streamer_entity[s] # 0}

\* The streamers whose stream thread was started and has not ended.
LiveStreamers == {s \in Streamers : streamer_pc[s] \notin {"new", "done"}}

\* start_camera_streamers, with WEBSOCKET_AVAILABLE: get_cameras answers
\* with the cameras cams; each one not in the map gets a new CameraStreamer
\* (__init__), which is started (start: running = True, the thread starts)
\* and put in the map.  The new objects are numbered in list order.
StartCameraStreamers ==
    /\ ~stopping
    /\ \E cams \in SUBSET Cameras :
          LET made == Cardinality(CreatedStreamers)
              fresh == {e \in cams : NeedsStreamer(e)}
              NewOf(e) == made + Cardinality({x \in fresh : x <= e})
              news == {NewOf(e) : e \in fresh}
          IN /\ fresh # {}
             /\ made + Cardinality(fresh) <= MaxStreamers
             /\ camera_streamers' =
                   [e \in Cameras |-> IF e \in fresh THEN NewOf(e) ELSE camera_streamers[e]]
             /\ streamer_entity' =
                   [s \in Streamers |->
                       IF s \in news THEN CHOOSE e \in fresh : NewOf(e) = s
                       ELSE streamer_entity[s]]
             /\ streamer_running' =
                   [x \in Streamers |->
                       IF \E s \in news : AttrsOf(s) = x THEN TRUE ELSE streamer_running[x]]
             /\ streamer_ws' =
                   [x \in Streamers |->
                       IF \E s \in news : AttrsOf(s) = x THEN "None" ELSE streamer_ws[x]]
             /\ streamer_pc' =
                   [s \in Streamers |-> IF s \in news THEN "top" ELSE streamer_pc[s]]
    /\ UNCHANGED <<streamer_sent, stopping, stop_todo>>

\* stop_camera_streamers: the for loop over the items of the map begins.
StopCameraStreamers ==
    /\ ~stopping
    /\ \E e \in Cameras : camera_streamers[e] # 0
    /\ stopping' = TRUE
    /\ stop_todo' = {camera_streamers[e] : e \in {x \in Cameras : camera_streamers[x] # 0}}
    /\ UNCHANGED <<camera_streamers, streamer_entity, streamer_running, streamer_ws,
                   streamer_pc, streamer_sent>>

\* stop_camera_streamers: streamer.stop() of the next item (the map keeps
\* the order of insertion): running = False, the connection is closed,
\* ws = None.  The thread is not joined.
StreamerStop(s) ==
    /\ stopping
    /\ s \in stop_todo
    /\ \A o \in stop_todo : s <= o
    /\ streamer_running' = [streamer_running EXCEPT ![AttrsOf(s)] = FALSE]
    /\ streamer_ws' = [streamer_ws EXCEPT ![AttrsOf(s)] = "None"]
    /\ stop_todo' = stop_todo \ {s}
    /\ UNCHANGED <<camera_streamers, streamer_entity, streamer_pc, streamer_sent,
                   stopping>>

\* stop_camera_streamers: self.camera_streamers.clear()
StopClear ==
    /\ stopping
    /\ stop_todo = {}
    /\ camera_streamers' = [e \in Cameras |-> 0]
    /\ stopping' = FALSE
    /\ UNCHANGED <<streamer_entity, streamer_running, streamer_ws, streamer_pc,
                   streamer_sent, stop_todo>>

\* _stream_loop: the while test fails and the thread ends, or it holds
\* and the connection is live: on to recv().
StreamerLoopTop(s) ==
    /\ streamer_pc[s] = "top"
    /\ ~streamer_running[AttrsOf(s)] \/ streamer_ws[AttrsOf(s)] = "connected"
    /\ streamer_pc' = [streamer_pc EXCEPT ![s] =
                          IF ~streamer_running[AttrsOf(s)] THEN "done" ELSE "recv"]
    /\ UNCHANGED <<camera_streamers, streamer_entity, streamer_running, streamer_ws,
                   streamer_sent, stopping, stop_todo>>

\* _stream_loop: the while test holds and there is no live connection;
\* _connect: create_connection succeeds and self.ws is the new connection.
StreamerConnectOk(s) ==
    /\ streamer_pc[s] = "top"
    /\ streamer_running[AttrsOf(s)] /\ streamer_ws[AttrsOf(s)] # "connected"
    /\ streamer_ws' = [streamer_ws EXCEPT ![AttrsOf(s)] = "connected"]
    /\ streamer_pc' = [streamer_pc EXCEPT ![s] = "recv"]
    /\ UNCHANGED <<camera_streamers, streamer_entity, streamer_running, streamer_sent,
                   stopping, stop_todo>>

\* The same, and _connect fails: time.sleep(reconnect_delay); continue
StreamerConnectFail(s) ==
    /\ streamer_pc[s] = "top"
    /\ streamer_running[AttrsOf(s)] /\ streamer_ws[AttrsOf(s)] # "connected"
    /\ streamer_pc' = [streamer_pc EXCEPT ![s] = "backoff"]
    /\ UNCHANGED <<camera_streamers, streamer_entity, streamer_running, streamer_ws,
                   streamer_sent, stopping, stop_todo>>

\* The sleep of reconnect_delay ends.
StreamerBackoffDone(s) ==
    /\ streamer_pc[s] = "backoff"
    /\ streamer_pc' = [streamer_pc EXCEPT ![s] = "top"]
    /\ UNCHANGED <<camera_streamers, streamer_entity, streamer_running, streamer_ws,
                   streamer_sent, stopping, stop_todo>>

\* recv() on the live connection: a start_stream command (to _send_frames),
\* or a timeout or another message (back to the while test).
StreamerRecv(s) ==
    /\ streamer_pc[s] = "recv"
    /\ streamer_ws[AttrsOf(s)] = "connected"
    /\ \E start_stream \in BOOLEAN :
          streamer_pc' = [streamer_pc EXCEPT ![s] = IF start_stream THEN "stream" ELSE "top"]
    /\ UNCHANGED <<camera_streamers, streamer_entity, streamer_running, streamer_ws,
                   streamer_sent, stopping, stop_todo>>

\* recv() or json.loads raises (the connection is closed or lost, ws is
\* None, the message is not JSON): self.ws = None and the sleep.
StreamerRecvError(s) ==
    /\ streamer_pc[s] = "recv"
    /\ streamer_ws' = [streamer_ws EXCEPT ![AttrsOf(s)] = "None"]
    /\ streamer_pc' = [streamer_pc EXCEPT ![s] = "backoff"]
    /\ UNCHANGED <<camera_streamers, streamer_entity, streamer_running, streamer_sent,
                   stopping, stop_todo>>

\* _send_frames: one round of the while loop sends a frame.
StreamerSendFrame(s) ==
    /\ streamer_pc[s] = "stream"
    /\ streamer_running[AttrsOf(s)]
    /\ streamer_ws[AttrsOf(s)] = "connected"
    /\ streamer_sent' = [streamer_sent EXCEPT ![s] = TRUE]
    /\ UNCHANGED <<camera_streamers, streamer_entity, streamer_running, streamer_ws,
                   streamer_pc, stopping, stop_todo>>

\* _send_frames ends: the while test fails, or a send raises and the loop
\* breaks; back to the while test of _stream_loop.
StreamerSendEnds(s) ==
    /\ streamer_pc[s] = "stream"
    /\ streamer_pc' = [streamer_pc EXCEPT ![s] = "top"]
    /\ UNCHANGED <<camera_streamers, streamer_entity, streamer_running, streamer_ws,
                   streamer_sent, stopping, stop_todo>>

\* The transport of the streamer's connection is lost: ws.connected is False.
StreamerTransportLoss(s) ==
    /\ streamer_pc[s] \notin {"new", "done"}
    /\ streamer_ws[AttrsOf(s)] = "connected"
    /\ streamer_ws' = [streamer_ws EXCEPT ![AttrsOf(s)] = "lost"]
    /\ UNCHANGED <<camera_streamers, streamer_entity, streamer_running, streamer_pc,
                   streamer_sent, stopping, stop_todo>>

\* A step of the CameraStreamer s: of its thread, of its connection, or its
\* stop().
StreamerStep(s) ==
    \/ StreamerStop(s)
    \/ StreamerLoopTop(s)
    \/ StreamerConnectOk(s)
    \/ StreamerConnectFail(s)
    \/ StreamerBackoffDone(s)
    \/ StreamerRecv(s)
    \/ StreamerRecvError(s)
    \/ StreamerSendFrame(s)
    \/ StreamerSendEnds(s)
    \/ StreamerTransportLoss(s)

StreamersNext ==
    \/ StartCameraStreamers /\ UNCHANGED <<tvars, cvars, lvars, evars, mvars>>
    \/ StopCameraStreamers /\ UNCHANGED <<tvars, cvars, lvars, evars, mvars>>
    \/ StopClear /\ UNCHANGED <<tvars, cvars, lvars, evars, mvars>>
    \/ (\E s \in Streamers : StreamerStop(s)) /\ UNCHANGED <<tvars, cvars, lvars, evars, mvars>>
    \/ (\E s \in Streamers : StreamerLoopTop(s)) /\ UNCHANGED <<tvars, cvars, lvars, evars, mvars>>
    \/ (\E s \in Streamers : StreamerConnectOk(s)) /\ UNCHANGED <<tvars, cvars, lvars, evars, mvars>>
    \/ (\E s \in Streamers : StreamerConnectFail(s)) /\ UNCHANGED <<tvars, cvars, lvars, evars, mvars>>
    \/ (\E s \in Streamers : StreamerBackoffDone(s)) /\ UNCHANGED <<tvars, cvars, lvars, evars, mvars>>
    \/ (\E s \in Streamers : StreamerRecv(s)) /\ UNCHANGED <<tvars, cvars, lvars, evars, mvars>>
    \/ (\E s \in Streamers : StreamerRecvError(s)) /\ UNCHANGED <<tvars, cvars, lvars, evars, mvars>>
    \/ (\E s \in Streamers : StreamerSendFrame(s)) /\ UNCHANGED <<tvars, cvars, lvars, evars, mvars>>
    \/ (\E s \in Streamers : StreamerSendEnds(s)) /\ UNCHANGED <<tvars, cvars, lvars, evars, mvars>>
    \/ (\E s \in Streamers : StreamerTransportLoss(s)) /\ UNCHANGED <<tvars, cvars, lvars, evars, mvars>>

StreamersStartState ==
    StreamersInit /\ TunnelIdle /\ CameraInit /\ LifecycleInit /\ ClassifierIdle /\ SyncIdle

StreamersSpec == StreamersStartState /\ [][StreamersNext]_vars

-----------------------------------------------------------------------------
(* MinHustomteIntegration.sync_electricity *)

\* electricity_data.get(key): None for a key the dictionary has not.
DictGet(d, key) == IF key \in DOMAIN d THEN d[key] ELSE None

\* (mutant) only an unset value fails the test: "is None" for "not".
TruthyUnlessNone(v) == v # None

\* The truth value of a float or None: None and 0.0 are false, any other
\* float, nan included, is true.
Truthy(v) == v.kind = "NaN" \/ (v.kind = "float" /\ v.milli # 0)

\* (mutant) the record is posted as it was read, unset fields included.
CleanDataKeepsAll(d) == d

\* clean_data = {k: v for k, v in electricity_data.items() if v is not None}
CleanData(d) == [k \in {f \in DOMAIN d : d[f] # None} |-> d[k]]

\* What becomes of requests.post: the portal answers 200, it answers
\* another status, the call raises after the request went out (timeout of
\* the answer), or it raises before anything is sent (no connection, a body
\* the JSON encoder refuses).
PostOutcomes == {"200", "other", "raised_sent", "raised_unsent"}

\* sync_electricity, from the test of authenticated to its return.  ha_ok:
\* get_electricity_sensors got the state list (it returns {} when the GET
\* fails or a reading raises); sensors is the electricity_data it returns.
SyncElectricity ==
    \E ha_ok \in BOOLEAN, outcome \in PostOutcomes :
       LET sensors == IF ha_ok THEN Classify(states) ELSE EmptyDict
       IN sync' =
             IF ~authenticated
             THEN [NoSync EXCEPT !.called = TRUE]
             ELSE IF ~Truthy(DictGet(sensors, "current_power"))
             THEN [NoSync EXCEPT !.called = TRUE, !.authenticated = TRUE,
                                 !.read = sensors]
             ELSE [called |-> TRUE, authenticated |-> TRUE,
                   read |-> sensors,
                   posted |-> outcome # "raised_unsent",
                   electricity |-> IF outcome # "raised_unsent"
                                   THEN CleanData(sensors) ELSE EmptyDict,
                   result |-> outcome = "200"]

SyncNext ==
    \/ Authenticate /\ UNCHANGED <<cvars, lvars, evars, svars, mvars>>
    \/ SyncElectricity /\ UNCHANGED <<tvars, cvars, lvars, evars, svars>>

\* Home Assistant holds a state list; the integration is not authenticated
\* yet and no sync was made.
SyncInit ==
    /\ states \in StateLists
    /\ electricity_data = FreshData
    /\ epos = 0
    /\ epc = "idle"
    /\ returned = <<>>
    /\ sync = NoSync

SyncStartState ==
    SyncInit /\ TunnelUnauthenticated /\ CameraInit /\ LifecycleInit /\ StreamersInit

SyncSpec == SyncStartState /\ [][SyncNext]_vars

-----------------------------------------------------------------------------
(* TunnelClient: properties *)

\* The status writes this cycle issued for id.
CycleWrites(id) == {k \in 1..Len(cycle_log) : cycle_log[k].data.id = id}

\* The cycle is over: the for loop was left and the thread sleeps.
CycleOver == tpc = "sleep" /\ listing = "ok"

\* Handling the request at position k of the batch failed: its record is
\* malformed, its local operation failed, or its status write failed.
FailedAt(k) ==
    \/ ParseRaises(reqs[requests_list[k]])
    \/ \E n \in CycleWrites(requests_list[k]) :
          cycle_log[n].data.response = "error_dict" \/ ~cycle_log[n].applied

UnknownAction(id) ==
    reqs[id].payload = "dict" /\ reqs[id].action \notin SupportedActions

\* C1: in one poll cycle every request of the batch gets exactly one terminal
\* status write (completed or error): never more than one while the cycle
\* runs, and exactly one once the cycle is over.
C1_ExactlyOneTerminalWrite ==
    /\ \A k \in 1..Len(requests_list) :
          /\ Cardinality(CycleWrites(requests_list[k])) <= 1
          /\ CycleOver => Cardinality(CycleWrites(requests_list[k])) = 1
    /\ \A n \in 1..Len(cycle_log) : cycle_log[n].data.status \in {"completed", "error"}

\* C2: a request of the batch whose action is not a supported one (a missing
\* action included) is written with status error and a message naming the
\* action; it is never written completed, and when the cycle is over it has
\* its write (it is not left pending).
C2_UnknownActionWrittenAsError ==
    \A k \in 1..Len(requests_list) :
       LET id == requests_list[k] IN
       UnknownAction(id) =>
          /\ \A n \in CycleWrites(id) :
                /\ cycle_log[n].data.status = "error"
                /\ cycle_log[n].data.error = "Unknown action: " \o reqs[id].action
          /\ CycleOver => CycleWrites(id) # {}

\* C3: when the cycle is over, every request that follows a failed one in
\* the batch has been handled and has its terminal status write.
C3_FailureIsolated ==
    CycleOver =>
       \A k, j \in 1..Len(requests_list) :
          (k < j /\ FailedAt(k)) => CycleWrites(requests_list[j]) # {}

\* C4: across all poll cycles, the action of a request id is executed at
\* most once and at most one terminal status write is issued for the id.
C4_AtMostOncePerId ==
    \A id \in ReqIds : execs[id] <= 1 /\ writes[id] <= 1

\* C10: a cycle whose listing failed executes no action and issues no status
\* write, and while the client is running the poll loop comes to list again.
C10_FailedListingSkipsCycle ==
    /\ [](listing = "fail" => (cycle_execs = <<>> /\ cycle_log = <<>>
                                 /\ tpc = "sleep"))
    /\ ((listing = "fail") ~> (tpc = "list" \/ ~running))

\* A cycle whose listing failed while requests were pending at the remote.
C10_Witness ==
    /\ listing = "fail"
    /\ tpc = "sleep"
    /\ running
    /\ Pending # {}
    /\ \E id \in ReqIds : writes[id] > 0

\* C11: a status write that reports a failed local operation (Home Assistant
\* answered with a non-success status or could not be reached) has status
\* error and carries an error string; it is not written completed.
C11_LocalFailureWrittenAsError ==
    \A n \in 1..Len(cycle_log) :
       cycle_log[n].data.response = "error_dict" =>
          /\ cycle_log[n].data.status = "error"
          /\ cycle_log[n].data.error # "None"

-----------------------------------------------------------------------------
(* Tunnel clients and poll threads: properties *)

\* The position of request id in the batch the listing returned.
PositionOf(id) == CHOOSE k \in 1..Len(requests_list) : requests_list[k] = id

\* C22: in one poll cycle the n-th status write is the write of the n-th
\* request returned, the actions are executed in the order returned, and
\* while request k is handled (or its write is due) the writes of exactly the
\* k - 1 requests before it have been attempted.
C22_HandledInOrderReturned ==
    /\ \A n \in 1..Len(cycle_log) :
          n <= Len(requests_list) /\ cycle_log[n].data.id = requests_list[n]
    /\ \A i, j \in 1..Len(cycle_execs) :
          i < j => PositionOf(cycle_execs[i]) < PositionOf(cycle_execs[j])
    /\ tpc \in {"handle", "write"} => Len(cycle_log) = idx - 1

\* A cycle whose listing returned request 2 before request 1 has handled and
\* written both, request 2 first.
C22_Witness ==
    /\ CycleOver
    /\ requests_list = <<2, 1>>
    /\ Len(cycle_log) = 2
    /\ cycle_log[1].data.id = 2 /\ cycle_log[2].data.id = 1
    /\ cycle_execs = <<2, 1>>

\* C30: while the integration is not authenticated the poll thread is at no
\* step that issues a request, and no listing was made, no action was
\* executed and no status write was issued, in this cycle or before.
C30_NoRequestUnauthenticated ==
    ~authenticated =>
       /\ tpc \notin {"list", "handle", "write"}
       /\ listing = "none"
       /\ cycle_execs = <<>> /\ cycle_log = <<>>
       /\ \A id \in ReqIds : execs[id] = 0 /\ writes[id] = 0

\* The running poll thread went through a cycle unauthenticated, with rows
\* pending on the remote, and sleeps.
C30_Witness ==
    /\ ~authenticated
    /\ running
    /\ tpc = "sleep"
    /\ Pending # {}

\* The poll threads that are inside a poll cycle.
InCycle == {p \in PollThreads : ppc[p] = "cycle"}

\* C12: at any time at most one poll cycle is in progress, whatever the
\* calls of start_tunnel_client, TunnelClient.start and TunnelClient.stop.
C12_OneCycleAtATime == Cardinality(InCycle) <= 1

-----------------------------------------------------------------------------
(* CameraStreamer: properties *)

\* C5: a thread that left Streaming because the relay connection was closed
\* or failed starts its next connection attempt only after it has slept the
\* reconnect delay.
C5_ReconnectOnlyAfterDelay ==
    \A t \in Threads : spc[t] = "connecting" => ~no_delay[t]

\* C6: every frame fetched from the camera is sent to the relay at most
\* once, within a streaming run and across reconnects.
C6_FrameSentAtMostOnce ==
    \A f \in Frames : send_count[f] <= 1

\* Frames were sent on two connections: the session reconnected in between.
C6_Witness ==
    /\ Cardinality(sent) >= 2
    /\ \E f, g \in Frames : f # g /\ send_count[f] = 1 /\ send_count[g] = 1

\* stop() has returned, no start() followed, and every thread has finished.
Quiescent ==
    /\ stopped
    /\ ~cam_running
    /\ \A t \in Threads : spc[t] \in {"new", "done"}

\* C7: once stop() has returned and the stream thread has finished, the
\* session holds no open relay connection.
C7_NoDanglingConnection ==
    Quiescent => (ws = 0 \/ conn[ws].state # "open")

\* C8: a binary frame goes out on a connection only after start_stream was
\* received on that connection.
C8_FramesOnlyAfterStart ==
    \A c \in sent : conn[c].started

\* C9: in AwaitingCommand a message other than start_stream leaves the
\* session awaiting on the same connection: self.ws still names it, it is
\* still open, and the thread goes on to recv() (not to _send_frames, not to
\* the backoff).
C9_OtherMessagesIgnored ==
    [][\A t \in Threads : \A m \in Messages \ {"start_stream"} :
          RecvMessage(t, m) =>
             /\ ws' = rc[t]
             /\ conn'[rc[t]].state = "open"
             /\ spc'[t] \in {"top", "recv"}]_vars

-----------------------------------------------------------------------------
(* get_electricity_sensors: properties *)

NotANumber(s) == s \in {"unavailable", "unknown", "", "abc", "null", "nan"}

\* The state list without the readings whose raw value is not a number.
WithoutNotANumber == SelectSeq(states, LAMBDA r : ~NotANumber(r.state))

\* C17: a reading whose raw value is unavailable, unknown, empty or not a
\* number populates nothing: the pass returns what it returns on the list
\* without these readings.
C17_InvalidReadingsLeaveNoTrace ==
    \A n \in 1..Len(returned) : returned[n] = Classify(WithoutNotANumber)

PowerFields == {"current_power", "phase_l1_power", "phase_l2_power", "phase_l3_power"}

EnergyFields == {"today_usage", "month_usage", "total_import", "total_export"}

\* The value of reading r in watts: a kW value times 1000, any other as read.
Watts(r) ==
    IF r.unit = "kW" /\ FloatOf(r.state).kind = "float"
    THEN Float(FloatOf(r.state).milli * 1000)
    ELSE FloatOf(r.state)

\* The value of reading r in kWh: a Wh value divided by 1000, any other as
\* read.
KilowattHours(r) ==
    IF r.unit = "Wh" /\ FloatOf(r.state).kind = "float"
    THEN Float(FloatOf(r.state).milli \div 1000)
    ELSE FloatOf(r.state)

\* C18: whenever an iteration stores a value in a power field (current power
\* or a phase power), it stores the reading's value times 1000 when the unit
\* is kW, and the value as read for any other unit.
C18_KilowattsStoredAsWatts ==
    [][ClassifyStep =>
          \A f \in PowerFields :
             electricity_data'[f] # electricity_data[f] =>
                electricity_data'[f] = Watts(states[epos])]_vars

\* A pass stored 2.5 kW as 2500 W in current power and in the power of phase
\* L1, and 800 W as read in the power of phase L2.
C18_Witness ==
    /\ epc = "done"
    /\ returned # <<>>
    /\ electricity_data.current_power = Float(2500000)
    /\ electricity_data.phase_l1_power = Float(2500000)
    /\ electricity_data.phase_l2_power = Float(800000)

\* C19: whenever an iteration stores a value in an energy field (today,
\* month, import, export), it stores the reading's value divided by 1000 when
\* the unit is Wh.
C19_WattHoursStoredAsKilowattHours ==
    [][ClassifyStep =>
          \A f \in EnergyFields :
             electricity_data'[f] # electricity_data[f] =>
                electricity_data'[f] = KilowattHours(states[epos])]_vars

\* A reading the pass takes as it is: its value parses and its texts are
\* strings.
WellFormed(r) == ~FloatRaises(r.state) /\ r.entity # NullText /\ r.name # NullText

\* A power reading whose text contains 'total' and 'power'.
TotalPower(r) ==
    /\ WellFormed(r) /\ IsPower(r)
    /\ Has(SearchText(r), "total") /\ Has(SearchText(r), "power")

\* A plain power reading: no 'total' in its text.
PlainPower(r) == WellFormed(r) /\ IsPower(r) /\ ~Has(SearchText(r), "total")

\* The positions the for loop has been through that hold a plain power
\* reading.
PlainSoFar == {k \in 1..Len(states) : k < epos /\ PlainPower(states[k])}

\* C21: at every point of the for loop current power is unset when no plain
\* (non-total) power reading has been met, which covers a list whose power
\* readings are all totals, and otherwise is the value in watts of the first
\* plain power reading met: no later reading changes it.
C21_FirstPlainPowerStays ==
    electricity_data.current_power =
       IF PlainSoFar = {} THEN None
       ELSE Watts(states[CHOOSE k \in PlainSoFar : \A j \in PlainSoFar : k <= j])

\* A pass met two plain power readings of different values and returned the
\* first as current power.
C21_Witness ==
    /\ epc = "done"
    /\ Len(states) = 2
    /\ PlainPower(states[1]) /\ PlainPower(states[2])
    /\ Watts(states[1]) # Watts(states[2])
    /\ returned # <<>>
    /\ returned[1].current_power = Watts(states[1])

\* A pass over total power readings only returned with current power unset.
C21_WitnessTotals ==
    /\ epc = "done"
    /\ Len(states) = 2
    /\ TotalPower(states[1]) /\ TotalPower(states[2])
    /\ returned # <<>>
    /\ returned[1].current_power = None

\* A malformed reading: its state is a number and its entity id or its
\* friendly name is null.
Malformed(r) == ~Skips(r) /\ (r.entity = NullText \/ r.name = NullText)

\* The state list without its malformed readings.
WithoutMalformed == SelectSeq(states, LAMBDA r : ~Malformed(r))

\* C23: a pass returns what it returns for the list without the malformed
\* readings: a malformed reading is skipped and the other readings populate
\* the record.
C23_MalformedReadingSkipped ==
    \A n \in 1..Len(returned) : returned[n] = Classify(WithoutMalformed)

\* The device-class tags of the categories.
Tags == {"power", "energy", "voltage", "current", "power_factor"}

\* The fields of the category of a device-class tag.
CategoryFields(tag) ==
    IF tag = "power" THEN PowerFields
    ELSE IF tag = "energy" THEN EnergyFields
    ELSE IF tag = "voltage"
       THEN {"voltage", "phase_l1_voltage", "phase_l2_voltage", "phase_l3_voltage"}
    ELSE IF tag = "current"
       THEN {"current_amps", "phase_l1_current", "phase_l2_current", "phase_l3_current"}
    ELSE {"power_factor"}

\* C24: an iteration over a reading that carries a device-class tag changes
\* no field outside the category of the tag.
C24_TagDecidesCategory ==
    [][ClassifyStep /\ states[epos].device_class \in Tags =>
          \A f \in Fields \ CategoryFields(states[epos].device_class) :
             electricity_data'[f] = electricity_data[f]]_vars

\* C25: an iteration over a power reading with a phase marker leaves the
\* reading's value in watts in the power field of the phase, whatever current
\* power holds and whether the reading is a total or not.
C25_PhasePowerAlwaysCopied ==
    [][ClassifyStep /\ WellFormed(states[epos])
          /\ IsPower(states[epos]) /\ Phase(states[epos]) # 0 =>
             electricity_data'[PhaseKey(states[epos], "power")] = Watts(states[epos])]_vars

\* A pass copied a total reading of phase L3 into the power of L3 and left
\* current power to the L1 reading in kW after it, which was copied, in
\* watts, into the power of L1 too.
C25_Witness ==
    /\ epc = "done"
    /\ Len(states) = 2
    /\ TotalPower(states[1]) /\ Phase(states[1]) = 3
    /\ PlainPower(states[2]) /\ Phase(states[2]) = 1 /\ states[2].unit = "kW"
    /\ returned # <<>>
    /\ returned[1].phase_l3_power = Watts(states[1])
    /\ returned[1].phase_l1_power = Watts(states[2])
    /\ returned[1].current_power = Watts(states[2])

\* The positions of the energy readings with an import keyword, and of the
\* energy readings no keyword of the energy block matches.
ExplicitImports ==
    {k \in 1..Len(states) :
        /\ WellFormed(states[k]) /\ IsEnergy(states[k])
        /\ EnergyKey(states[k]) = "total_import"}

UnmatchedEnergy ==
    {k \in 1..Len(states) :
        WellFormed(states[k]) /\ IsEnergy(states[k]) /\ EnergyKey(states[k]) = ""}

\* C26: total import of a returned record is the value of an explicit import
\* reading when the list has one, and otherwise the value of the first
\* unmatched energy reading when the list has one.
C26_UnmatchedEnergyIsImportFallback ==
    \A n \in 1..Len(returned) :
       returned[n] # EmptyDict =>
          IF ExplicitImports # {}
          THEN \E k \in ExplicitImports :
                  returned[n].total_import = KilowattHours(states[k])
          ELSE UnmatchedEnergy # {} =>
                  returned[n].total_import =
                     KilowattHours(states[CHOOSE k \in UnmatchedEnergy :
                                             \A j \in UnmatchedEnergy : k <= j])

\* The quantities of the voltage and current blocks.
Quantities == {"voltage", "current"}

IsQuantity(r, q) == IF q = "voltage" THEN IsVoltage(r) ELSE IsCurrent(r)

ScalarKey(q) == IF q = "voltage" THEN "voltage" ELSE "current_amps"

PhaseField(ph, q) ==
    IF ph = 1 THEN "phase_l1_" \o q
    ELSE IF ph = 2 THEN "phase_l2_" \o q
    ELSE "phase_l3_" \o q

\* The positions the for loop has been through that hold a reading of
\* quantity q with phase ph (0: no phase marker).
MetSoFar(q, ph) ==
    {k \in 1..Len(states) :
        /\ k < epos /\ WellFormed(states[k])
        /\ IsQuantity(states[k], q) /\ Phase(states[k]) = ph}

\* C27: at every point of the for loop, for voltage and for current, the
\* scalar field is unset when no reading without phase marker has been met
\* (a phase reading never goes there) and otherwise is the value of the first
\* one met; each phase field is unset or the value of the last reading of
\* that phase met.
C27_ScalarIsFirstUnphased ==
    \A q \in Quantities :
       /\ electricity_data[ScalarKey(q)] =
             IF MetSoFar(q, 0) = {} THEN None
             ELSE FloatOf(states[CHOOSE k \in MetSoFar(q, 0) :
                                    \A j \in MetSoFar(q, 0) : k <= j].state)
       /\ \A ph \in 1..3 :
             electricity_data[PhaseField(ph, q)] =
                IF MetSoFar(q, ph) = {} THEN None
                ELSE FloatOf(states[CHOOSE k \in MetSoFar(q, ph) :
                                       \A j \in MetSoFar(q, ph) : k >= j].state)

\* A pass met two voltage readings without phase marker, of different
\* values, and returned the first as voltage.
C27_Witness ==
    /\ epc = "done"
    /\ Len(states) = 2
    /\ MetSoFar("voltage", 0) = {1, 2}
    /\ FloatOf(states[1].state) # FloatOf(states[2].state)
    /\ returned # <<>>
    /\ returned[1].voltage = FloatOf(states[1].state)

\* A pass met a voltage reading of phase L1 and a current reading of phase
\* L2 and returned them in the phase fields, the scalar fields unset.
C27_WitnessPhases ==
    /\ epc = "done"
    /\ Len(states) = 2
    /\ MetSoFar("voltage", 1) # {} /\ MetSoFar("current", 2) # {}
    /\ returned # <<>>
    /\ returned[1].phase_l1_voltage # None /\ returned[1].phase_l2_current # None
    /\ returned[1].voltage = None /\ returned[1].current_amps = None

\* The state list is made of power readings: one plain reading, the others
\* (at least one) total readings.
PlainAmongTotals ==
    /\ \A k \in 1..Len(states) : PlainPower(states[k]) \/ TotalPower(states[k])
    /\ Cardinality({k \in 1..Len(states) : PlainPower(states[k])}) = 1
    /\ \E k \in 1..Len(states) : TotalPower(states[k])

\* C20: of a total power reading and a plain power reading, the plain one
\* is current power, whichever of the two comes first.
C20_PlainPowerBeatsTotal ==
    \A n \in 1..Len(returned) :
       PlainAmongTotals =>
          \E k \in 1..Len(states) :
             /\ PlainPower(states[k])
             /\ returned[n].current_power = Watts(states[k])

\* The total reading came first and the plain reading after it was chosen.
C20_Witness ==
    /\ returned # <<>>
    /\ PlainAmongTotals
    /\ TotalPower(states[1])
    /\ returned[1].current_power = Float(800000)

-----------------------------------------------------------------------------
(* Agent: properties *)

\* stop_tunnel_client and stop_camera_streamers have returned (and nothing
\* is started again: the client and the streamer are started once).
AgentStopped ==
    /\ stopped /\ ~cam_running
    /\ tunnel_client = 0 /\ \A c \in Clients : ~client_running[c]
    /\ \E p \in PollThreads : ppc[p] # "new"

\* The poll loop and every stream loop have ended.
LoopsEnded ==
    /\ \A p \in PollThreads : ppc[p] \in {"new", "done"}
    /\ \A t \in Threads : spc[t] \in {"new", "done"}

\* C13: once the agent is stopped, the poll loop and every stream loop
\* end, and from then on no loop begins a poll cycle, a connection attempt
\* or a frame send.
C13_StopEndsEveryLoop ==
    /\ AgentStopped ~> LoopsEnded
    /\ [][AgentStopped =>
             /\ \A p \in PollThreads : ppc'[p] = "cycle" => ppc[p] = "cycle"
             /\ \A t \in Threads : spc'[t] = "connecting" => spc[t] = "connecting"
             /\ send_count' = send_count]_vars

\* Both loops worked, the agent was stopped, and both loops have ended.
C13_Witness ==
    /\ AgentStopped
    /\ LoopsEnded
    /\ \E c \in Conns : conn[c].started
    /\ \E f \in Frames : send_count[f] > 0

\* C14: a running session never ends its loop, and whenever it has no
\* live connection (self.ws is None or reports not connected) it comes to
\* make a connection attempt: after a failed attempt and after a loss too.
C14_KeepsReconnecting ==
    /\ [](cam_running => \A t \in Threads : spc[t] # "done")
    /\ ((cam_running /\ NeedsConnect)
           ~> ((\E t \in Threads : spc[t] = "connecting") \/ ~cam_running))

\* A running session that lost a connection is making its next attempt.
C14_Witness ==
    /\ cam_running
    /\ \E t \in Threads : spc[t] = "connecting"
    /\ \E c \in Conns : conn[c].state = "closed"

\* C15: in Streaming, a fetch that gives no frame sends nothing, and leaves
\* the thread in the loop of _send_frames on the same connection, where the
\* next iteration fetches again.
C15_FailedFetchSkipsFrame ==
    [][\A t \in Threads :
          (FetchFrame(t) /\ fetched' = fetched) =>
             /\ sent' = sent
             /\ send_count' = send_count
             /\ spc'[t] = "stream"
             /\ ws' = ws
             /\ conn' = conn]_vars

\* A thread that has sent a frame skipped the send of its last iteration and
\* is still streaming on the open connection.
C15_Witness ==
    \E t \in Threads :
       /\ skipped[t]
       /\ spc[t] = "stream"
       /\ MaySend
       /\ conn[ws].state = "open"
       /\ ws \in sent

-----------------------------------------------------------------------------
(* camera_streamers: properties *)

\* C28: a step of one CameraStreamer (its stop, a step of its thread, the
\* loss of its connection) leaves the connection handle, the running flag
\* and the state of every other CameraStreamer as they were.
C28_StreamersIndependent ==
    [][\A s \in Streamers :
          StreamerStep(s) =>
             \A o \in Streamers \ {s} :
                /\ streamer_ws'[AttrsOf(o)] = streamer_ws[AttrsOf(o)]
                /\ streamer_running'[AttrsOf(o)] = streamer_running[AttrsOf(o)]
                /\ streamer_pc'[o] = streamer_pc[o]
                /\ streamer_sent'[o] = streamer_sent[o]]_vars

\* Two streamers run: the first sleeps after a failed connect, the second
\* holds its connection and has sent a frame on it.
C28_Witness ==
    /\ streamer_running[AttrsOf(1)] /\ streamer_running[AttrsOf(2)]
    /\ streamer_pc[1] = "backoff" /\ streamer_ws[AttrsOf(1)] = "None"
    /\ streamer_pc[2] = "stream" /\ streamer_ws[AttrsOf(2)] = "connected"
    /\ streamer_sent[2]

\* The map holds, per camera, a streamer of that camera that was started.
StreamerMapSound ==
    \A e \in Cameras :
       camera_streamers[e] # 0 =>
          /\ streamer_entity[camera_streamers[e]] = e
          /\ streamer_pc[camera_streamers[e]] # "new"

\* C29: per camera there is at most one CameraStreamer whose stream thread
\* lives, and a camera is in the map only with a streamer of its own that
\* was started.
C29_OneStreamerPerCamera ==
    /\ \A e \in Cameras :
          Cardinality({s \in LiveStreamers : streamer_entity[s] = e}) <= 1
    /\ StreamerMapSound

-----------------------------------------------------------------------------
(* sync_electricity: properties *)

\* A value that is populated and not zero.
PopulatedNonZero(v) == v # None /\ v # Float(0)

\* The fields of the record d that are populated.
Populated(d) == {f \in DOMAIN d : d[f] # None}

C31_WitnessZero ==
    /\ sync.called /\ sync.authenticated
    /\ DictGet(sync.read, "current_power") = Float(0)
    /\ ~sync.posted /\ ~sync.result
====
